---------------------------- MODULE Spec2Model ----------------------------
(***************************************************************************)
(* Marketing slogan generator: the prompt library (prompt_library.py) and  *)
(* the completion client with its console menu (main.py).                  *)
(*                                                                         *)
(* A Python str is a sequence of tokens; a token is a piece of text that   *)
(* is never split (a template fragment, a format marker, a word typed by   *)
(* the user).  Concatenation is \o, so an f-string is the concatenation of *)
(* its literal fragments and the interpolated values.                      *)
(***************************************************************************)
EXTENDS Naturals, Sequences, FiniteSets, TLC

VARIABLES
    pc,               \* where the process stands
    environ,          \* os.environ after load_dotenv: the four configuration keys
    nInputs,          \* inputs main_menu has read so far
    menu_choice,      \* main_menu's local `choice`
    product_name,     \* interactive_mode's locals
    target_audience,
    entered_tone,     \* what the user typed for the tone, stripped
    tone,
    choice,
    prompt,
    style,
    calls,            \* generate_slogan calls of the current menu run, in order
    args,             \* the arguments a caller of the imported modules uses
    first,            \* the first renderer call of an importing caller
    lib               \* the latest call of an importing caller

vars == <<pc, environ, nInputs, menu_choice, product_name, target_audience,
          entered_tone, tone, choice, prompt, style, calls, args, first, lib>>

-----------------------------------------------------------------------------
(* Bounds *)

MaxMenuInputs == 2

-----------------------------------------------------------------------------
(* Python values *)

PyNone == [type |-> "NoneType"]
PyStr(s) == [type |-> "str", s |-> s]
Omitted == [type |-> "omitted"]

\* bool(v) of a value that is None or a str
truthy(v) == v.type = "str" /\ v.s # <<>>

Whitespace == {" ", "\t", "\n"}

RECURSIVE lstrip(_)
lstrip(s) ==
    IF s # <<>> /\ Head(s) \in Whitespace THEN lstrip(Tail(s)) ELSE s

RECURSIVE rstrip(_)
rstrip(s) ==
    IF s # <<>> /\ s[Len(s)] \in Whitespace
    THEN rstrip(SubSeq(s, 1, Len(s) - 1))
    ELSE s

\* str.strip()
strip(s) == rstrip(lstrip(s))

\* number of occurrences of the token m in s
Count(m, s) == Cardinality({i \in 1..Len(s) : s[i] = m})

\* sub in s
Contains(sub, s) ==
    \E i \in 1..(Len(s) - Len(sub) + 1) : SubSeq(s, i, i + Len(sub) - 1) = sub

\* s.startswith(pre)
StartsWith(pre, s) == Len(s) >= Len(pre) /\ SubSeq(s, 1, Len(pre)) = pre

-----------------------------------------------------------------------------
(* prompt_library.py *)

ProfessionalDefaultTone == <<"professional">>
CreativeDefaultTone == <<"bold">>
AudienceDefaultTone == <<"friendly">>
GetAllDefaultTone == <<"professional">>

\* a keyword argument with a default value
default(v, d) == IF v = Omitted THEN d ELSE v.s

\* the f-string of professional_slogan_prompt
professional_template(p_name, t_audience, t) ==
       <<"You are an expert marketing copywriter with 10+ years of experience in brand strategy and consumer psychology.\n\nYour task is to create 3 compelling marketing slogans for the following product:\n\n",
         "Product: ">>
    \o p_name
    \o <<"\nTarget Audience: ">>
    \o t_audience
    \o <<"\nDesired Tone: ">>
    \o t
    \o <<"\n\n", "Requirements and Constraints:\n1. Each slogan must be between 3-8 words maximum\n2. Slogans must be memorable, clear, and emotionally resonant\n3. ",
         "Maintain a ">>
    \o t
    \o <<" tone throughout",
         "\n4. Focus on customer benefits, not just product features\n5. Do NOT make false claims or exaggerated promises\n6. Avoid clichés like \"best in class\" or \"world-leading\"\n7. Each slogan should be distinct and offer a different angle\n\nFormat your response as:\n",
         "Slogan 1:", " [your slogan]\n",
         "Slogan 2:", " [your slogan]\n",
         "Slogan 3:", " [your slogan]\n\n",
         "Brief Explanation:", " [One sentence explaining the strategic approach]">>

\* mutation: the renderer keeps state: once generate_slogan has run it
\* ignores the tone it is given
professional_slogan_prompt_stateful(p_name, t_audience, a_tone) ==
    professional_template(p_name, t_audience,
                          IF lib.fn = "generate_slogan"
                          THEN ProfessionalDefaultTone
                          ELSE default(a_tone, ProfessionalDefaultTone))

\* mutation: the output format loses its third slogan line
professional_slogan_prompt_two_slogans(p_name, t_audience, a_tone) ==
    SelectSeq(professional_template(p_name, t_audience,
                                    default(a_tone, ProfessionalDefaultTone)),
              LAMBDA tok : tok # "Slogan 3:")

professional_slogan_prompt(p_name, t_audience, a_tone) ==
    professional_template(p_name, t_audience, default(a_tone, ProfessionalDefaultTone))

\* the f-string of creative_slogan_prompt
creative_template(p_name, t_audience, t) ==
       <<"You are a creative director at a leading advertising agency, known for creating viral campaigns and memorable brand identities.\n\nYour task is to develop 3 innovative marketing slogans that break through the noise:\n\n",
         "Product: ">>
    \o p_name
    \o <<"\nTarget Audience: ">>
    \o t_audience
    \o <<"\nDesired Tone: ">>
    \o t
    \o <<"\n\n", "Creative Guidelines:\n1. Maximum 7 words per slogan\n2. Use vivid language, metaphors, or wordplay where appropriate\n3. ",
         "Maintain a ">>
    \o t
    \o <<" and confident voice",
         "\n4. Create an emotional connection or spark curiosity\n5. Must be appropriate for professional marketing channels\n6. Avoid misleading statements or unsubstantiated claims\n7. Think outside conventional marketing language\n\nDeliver 3 distinct slogans that each take a different creative approach:\n- One focusing on aspiration\n- One focusing on transformation\n- One focusing on uniqueness\n\nFormat:\n",
         "Slogan 1:", " [your slogan]\n",
         "Slogan 2:", " [your slogan]\n",
         "Slogan 3:", " [your slogan]\n\n",
         "Creative Rationale:", " [One sentence on your creative strategy]">>

\* mutation: the creative default tone is the professional one
creative_slogan_prompt_professional_default(p_name, t_audience, a_tone) ==
    creative_template(p_name, t_audience, default(a_tone, ProfessionalDefaultTone))

creative_slogan_prompt(p_name, t_audience, a_tone) ==
    creative_template(p_name, t_audience, default(a_tone, CreativeDefaultTone))

\* the f-string of audience_focused_prompt
audience_focused_template(p_name, t_audience, t) ==
       <<"You are a consumer insights specialist who excels at understanding customer psychology and creating messages that deeply resonate with specific audiences.\n\nYour task is to craft 3 audience-focused marketing slogans:\n\n",
         "Product: ">>
    \o p_name
    \o <<"\nTarget Audience: ">>
    \o t_audience
    \o <<"\nDesired Tone: ">>
    \o t
    \o <<"\n\n", "Audience-Centric Requirements:\n1. Each slogan must be 4-8 words\n2. Speak directly to the needs, desires, or challenges of ">>
    \o t_audience
    \o <<"\n3. Use language and references this audience naturally uses\n4. ",
         "Maintain a ">>
    \o t
    \o <<" and approachable tone",
         "\n5. Build trust through authenticity, not hype\n6. Ensure claims are realistic and verifiable\n7. Make the audience feel understood and valued\n\nConsider what matters most to ">>
    \o t_audience
    \o <<" and reflect that in your slogans.\n\nProvide:\n",
         "Slogan 1:", " [your slogan]\n",
         "Slogan 2:", " [your slogan]\n",
         "Slogan 3:", " [your slogan]\n\n",
         "Audience Insight:", " [One sentence on why these resonate with ">>
    \o t_audience
    \o <<"]">>

\* mutation: the product name is stripped before it is interpolated
audience_focused_prompt_stripping(p_name, t_audience, a_tone) ==
    audience_focused_template(strip(p_name), t_audience,
                              default(a_tone, AudienceDefaultTone))

audience_focused_prompt(p_name, t_audience, a_tone) ==
    audience_focused_template(p_name, t_audience, default(a_tone, AudienceDefaultTone))

get_all_prompts(p_name, t_audience, a_tone) ==
    LET t == PyStr(default(a_tone, GetAllDefaultTone)) IN
    [professional     |-> professional_slogan_prompt(p_name, t_audience, t),
     creative         |-> creative_slogan_prompt(p_name, t_audience, t),
     audience_focused |-> audience_focused_prompt(p_name, t_audience, t)]

-----------------------------------------------------------------------------
(* main.py: the completion client *)

ConfigKeys == {"AZURE_OPENAI_ENDPOINT", "AZURE_OPENAI_KEY",
               "AZURE_OPENAI_DEPLOYMENT", "AZURE_OPENAI_API_VERSION"}

\* what a key of the process environment can hold: absent, empty, a value
EnvValues == {PyNone, PyStr(<<>>), PyStr(<<"set">>)}

\* os.getenv(key)
getenv(key) == environ[key]

\* mutation: the check tests `is not None` instead of truthiness
all_configured_not_none(endpoint, api_key, deployment, api_version) ==
    endpoint # PyNone /\ api_key # PyNone /\ deployment # PyNone /\ api_version # PyNone

\* all([endpoint, api_key, deployment, api_version])
all_configured(endpoint, api_key, deployment, api_version) ==
    truthy(endpoint) /\ truthy(api_key) /\ truthy(deployment) /\ truthy(api_version)

ConfigError ==
    <<"ERROR", ": Missing Azure OpenAI configuration. Please check your .env file.">>

SystemMessage ==
    <<"You are a professional marketing expert who creates concise, impactful slogans.">>

MaxCompletionTokens == 16384

\* the chat payload of client.chat.completions.create
messages(a_prompt) ==
    <<[role |-> "system", content |-> SystemMessage],
      [role |-> "user", content |-> a_prompt]>>

request(deployment, a_prompt) ==
    [model |-> deployment,
     messages |-> messages(a_prompt),
     max_completion_tokens |-> MaxCompletionTokens]

\* mutation: the sentinel leaves the exception's message out
error_result_without_message(e) == <<"Error generating slogan">>

\* f"Error generating slogan: {str(e)}"
error_result(e) == <<"Error generating slogan: ">> \o e

IndexError == <<"list index out of range">>

\* What the openai package and the remote service do with one call: the client
\* constructor raises or returns a handle; create() raises e or returns a
\* response holding choices, each with a message content that is a str or None.
FaultMessages == {<<"Connection error.">>, <<"ERROR", " 401 Unauthorized">>}

Contents == {PyNone,
             PyStr(<<" ", "Slogan 1:", " Sip Green\n", "Brief Explanation:", " eco", " ">>)}

ChoiceLists == {<<>>} \cup {<<c>> : c \in Contents}
                      \cup {<<PyStr(<<"first">>), PyStr(<<"second">>)>>}

Remotes ==
         {[construct |-> "raise", send |-> "none", e |-> <<"Invalid URL">>, choices |-> <<>>]}
    \cup {[construct |-> "ok", send |-> "raise", e |-> m, choices |-> <<>>] :
              m \in FaultMessages}
    \cup {[construct |-> "ok", send |-> "ok", e |-> <<>>, choices |-> cs] :
              cs \in ChoiceLists}

\* what a recording transport sees of one call
Constructed == [ev |-> "AzureOpenAI"]
ConstructFailed(e) == [ev |-> "AzureOpenAI raised", e |-> e]
Sent(req) == [ev |-> "create", request |-> req]
SendFailed(e) == [ev |-> "create raised", e |-> e]
Response(choices) == [ev |-> "response", choices |-> choices]

\* how a call ends: it returns a value or an exception leaves it
Return(v, io) == [raised |-> FALSE, value |-> v, e |-> <<>>, io |-> io]
Raise(e, io) == [raised |-> TRUE, value |-> PyNone, e |-> e, io |-> io]

\* mutation: the content is stripped before it is returned
extract_stripped(choices) ==
    IF choices = <<>> THEN PyStr(<<"Error generating slogan: ", "list index out of range">>)
    ELSE IF choices[1] = PyNone THEN PyNone
    ELSE PyStr(strip(choices[1].s))

\* return response.choices[0].message.content, inside the try block
extract(choices) ==
    IF choices = <<>> THEN PyStr(error_result(IndexError)) ELSE choices[1]

\* the try block: one create() and what it leads to
try_create(deployment, a_prompt, r) ==
    LET io == <<Constructed, Sent(request(deployment, a_prompt))>> IN
    IF r.send = "raise"
    THEN Return(PyStr(error_result(r.e)), io \o <<SendFailed(r.e)>>)
    ELSE Return(extract(r.choices), io \o <<Response(r.choices)>>)

\* generate_slogan(prompt), with r what the package and the service do
generate_slogan(a_prompt, r) ==
    LET endpoint    == getenv("AZURE_OPENAI_ENDPOINT")
        api_key     == getenv("AZURE_OPENAI_KEY")
        deployment  == getenv("AZURE_OPENAI_DEPLOYMENT")
        api_version == getenv("AZURE_OPENAI_API_VERSION")
    IN  IF ~all_configured(endpoint, api_key, deployment, api_version)
        THEN Return(PyStr(ConfigError), <<>>)
        ELSE IF r.construct = "raise"
        THEN Raise(r.e, <<ConstructFailed(r.e)>>)
        ELSE try_create(deployment.s, a_prompt, r)

-----------------------------------------------------------------------------
(* Inputs *)

\* lines typed at the product, audience and tone questions
TypedLines == {<<>>, <<" ">>, <<"Eco">>, <<" ", "Eco", "\t">>, <<"Slogan 1:">>}

\* lines typed at the two numbered questions
TypedChoices == {<<>>, <<"1">>, <<"2">>, <<"3">>, <<"4">>,
                 <<" ", "1">>, <<"2", " ">>, <<" ", "3", "\n">>, <<"1", "3">>}

\* argument values of a caller that imports the modules
Values == {<<>>, <<" ">>, <<"Eco", " ", "Slogan 1:">>}

Tones == {Omitted} \cup {PyStr(v) : v \in Values}

\* prompts a caller hands to generate_slogan directly
DirectPrompts == {<<"Write a slogan">>}

NoArgs == [product_name |-> <<>>, target_audience |-> <<>>, tone |-> Omitted]
NoCall == [fn |-> "none", between |-> FALSE]

-----------------------------------------------------------------------------
(* main.py: the console program *)

DemoProduct == <<"EcoBottle Pro">>
DemoAudience == <<"environmentally conscious millennials">>
DemoTone == <<"friendly">>
DemoCreativeTone == <<"bold">>

InteractiveDefaultTone == <<"professional">>

Init ==
    /\ environ \in [ConfigKeys -> EnvValues]
    /\ \/ pc = "main_menu" /\ args = NoArgs
       \/ /\ pc = "imported"
          /\ args \in [product_name : Values, target_audience : Values, tone : Tones]
    /\ nInputs = 0
    /\ menu_choice = <<>>
    /\ product_name = <<>>
    /\ target_audience = <<>>
    /\ entered_tone = <<>>
    /\ tone = <<>>
    /\ choice = <<>>
    /\ prompt = <<>>
    /\ style = ""
    /\ calls = <<>>
    /\ first = NoCall
    /\ lib = NoCall

\* where control goes after a generate_slogan call of the console program:
\* nothing in main.py catches what generate_slogan lets through
after_call(ret, next) == IF ret.raised THEN "crashed" ELSE next

\* one pass of the while loop of main_menu, up to the call of the chosen mode
main_menu ==
    /\ pc = "main_menu"
    /\ nInputs < MaxMenuInputs
    /\ \E line \in TypedChoices :
          /\ menu_choice' = strip(line)
          /\ pc' = CASE menu_choice' = <<"1">> -> "demo_professional"
                     [] menu_choice' = <<"2">> -> "input_product"
                     [] menu_choice' = <<"3">> -> "exited"
                     [] OTHER -> "main_menu"
    /\ nInputs' = nInputs + 1
    /\ product_name' = <<>>
    /\ target_audience' = <<>>
    /\ entered_tone' = <<>>
    /\ tone' = <<>>
    /\ choice' = <<>>
    /\ prompt' = <<>>
    /\ style' = ""
    /\ calls' = <<>>
    /\ UNCHANGED <<environ, args, first, lib>>

\* demonstrate_prompt_usage, one step per call of generate_slogan
demo_step(at, a_prompt, next) ==
    /\ pc = at
    /\ \E r \in Remotes :
          LET ret == generate_slogan(a_prompt, r) IN
          /\ calls' = Append(calls, [prompt |-> a_prompt, ret |-> ret])
          /\ pc' = after_call(ret, next)
    /\ UNCHANGED <<environ, nInputs, menu_choice, product_name, target_audience,
                   entered_tone, tone, choice, prompt, style, args, first, lib>>

demonstrate_professional ==
    demo_step("demo_professional",
              professional_slogan_prompt(DemoProduct, DemoAudience, PyStr(DemoTone)),
              "demo_creative")

demonstrate_creative ==
    demo_step("demo_creative",
              creative_slogan_prompt(DemoProduct, DemoAudience, PyStr(DemoCreativeTone)),
              "demo_audience")

demonstrate_audience ==
    demo_step("demo_audience",
              audience_focused_prompt(DemoProduct, DemoAudience, PyStr(DemoTone)),
              "main_menu")

\* interactive_mode, one step per input() and one for the call of generate_slogan
input_product ==
    /\ pc = "input_product"
    /\ \E line \in TypedLines : product_name' = strip(line)
    /\ pc' = "input_audience"
    /\ UNCHANGED <<environ, nInputs, menu_choice, target_audience, entered_tone,
                   tone, choice, prompt, style, calls, args, first, lib>>

input_audience ==
    /\ pc = "input_audience"
    /\ \E line \in TypedLines : target_audience' = strip(line)
    /\ pc' = "input_tone"
    /\ UNCHANGED <<environ, nInputs, menu_choice, product_name, entered_tone,
                   tone, choice, prompt, style, calls, args, first, lib>>

\* input(...).strip() or "professional"
input_tone ==
    /\ pc = "input_tone"
    /\ \E line \in TypedLines :
          /\ entered_tone' = strip(line)
          /\ tone' = IF entered_tone' # <<>> THEN entered_tone'
                                            ELSE InteractiveDefaultTone
    /\ pc' = "input_style"
    /\ UNCHANGED <<environ, nInputs, menu_choice, product_name, target_audience,
                   choice, prompt, style, calls, args, first, lib>>

\* the if/elif chain that selects the renderer
select_prompt(a_choice) ==
    CASE a_choice = <<"1">> ->
            [prompt |-> professional_slogan_prompt(product_name, target_audience, PyStr(tone)),
             style |-> "Professional"]
      [] a_choice = <<"2">> ->
            [prompt |-> creative_slogan_prompt(product_name, target_audience, PyStr(tone)),
             style |-> "Creative"]
      [] a_choice = <<"3">> ->
            [prompt |-> audience_focused_prompt(product_name, target_audience, PyStr(tone)),
             style |-> "Audience-Focused"]
      [] OTHER ->
            [prompt |-> professional_slogan_prompt(product_name, target_audience, PyStr(tone)),
             style |-> "Professional"]

input_style ==
    /\ pc = "input_style"
    /\ \E line \in TypedChoices :
          /\ choice' = strip(line)
          /\ prompt' = select_prompt(choice').prompt
          /\ style' = select_prompt(choice').style
    /\ pc' = "interactive_generate"
    /\ UNCHANGED <<environ, nInputs, menu_choice, product_name, target_audience,
                   entered_tone, tone, calls, args, first, lib>>

interactive_generate ==
    /\ pc = "interactive_generate"
    /\ \E r \in Remotes :
          LET ret == generate_slogan(prompt, r) IN
          /\ calls' = Append(calls, [prompt |-> prompt, ret |-> ret])
          /\ pc' = after_call(ret, "main_menu")
    /\ UNCHANGED <<environ, nInputs, menu_choice, product_name, target_audience,
                   entered_tone, tone, choice, prompt, style, args, first, lib>>

-----------------------------------------------------------------------------
(* A caller that imports prompt_library and main and calls their functions *)
(* with the arguments args                                                 *)

called(fn, result) ==
    /\ pc = "imported"
    /\ lib' = [fn |-> fn, result |-> result,
               between |-> first # NoCall /\ (lib.fn = "generate_slogan" \/ lib.between)]
    /\ first' = IF first = NoCall /\ fn # "generate_slogan" THEN lib' ELSE first
    /\ UNCHANGED <<pc, environ, nInputs, menu_choice, product_name, target_audience,
                   entered_tone, tone, choice, prompt, style, calls, args>>

call_professional ==
    called("professional_slogan_prompt",
           professional_slogan_prompt(args.product_name, args.target_audience, args.tone))

call_creative ==
    called("creative_slogan_prompt",
           creative_slogan_prompt(args.product_name, args.target_audience, args.tone))

call_audience_focused ==
    called("audience_focused_prompt",
           audience_focused_prompt(args.product_name, args.target_audience, args.tone))

call_get_all_prompts ==
    called("get_all_prompts",
           get_all_prompts(args.product_name, args.target_audience, args.tone))

call_generate_slogan ==
    \E p \in DirectPrompts, r \in Remotes :
        called("generate_slogan", [prompt |-> p, ret |-> generate_slogan(p, r)])

-----------------------------------------------------------------------------

Next ==
    \/ main_menu
    \/ demonstrate_professional
    \/ demonstrate_creative
    \/ demonstrate_audience
    \/ input_product
    \/ input_audience
    \/ input_tone
    \/ input_style
    \/ interactive_generate
    \/ call_professional
    \/ call_creative
    \/ call_audience_focused
    \/ call_get_all_prompts
    \/ call_generate_slogan

Spec == Init /\ [][Next]_vars

-----------------------------------------------------------------------------
(* What the claims speak about *)

\* every generate_slogan call the state records: [prompt, ret]
GenerateCalls ==
    {calls[i] : i \in 1..Len(calls)}
        \cup (IF lib.fn = "generate_slogan" THEN {lib.result} ELSE {})

\* no configuration value is absent or empty
Configured == \A k \in ConfigKeys : environ[k] # PyNone /\ environ[k] # PyStr(<<>>)

Events(ret, ev) == {i \in 1..Len(ret.io) : ret.io[i].ev = ev}

\* the run of the console program in progress or just finished
DemoStyles == <<"professional", "creative", "audience_focused">>
InDemo == menu_choice = <<"1">>
InInteractive == menu_choice = <<"2">>
RunOver == pc \in {"main_menu", "exited", "crashed"}

StyleOf(display) ==
    CASE display = "Professional" -> "professional"
      [] display = "Creative" -> "creative"
      [] display = "Audience-Focused" -> "audience_focused"

\* every rendered prompt the state records, with the arguments of its request:
\* tone is Omitted when the request supplied none
Rendered ==
         (IF lib.fn \in {"professional_slogan_prompt", "creative_slogan_prompt",
                         "audience_focused_prompt"}
          THEN {[via |-> "renderer",
                 style |-> CASE lib.fn = "professional_slogan_prompt" -> "professional"
                             [] lib.fn = "creative_slogan_prompt" -> "creative"
                             [] lib.fn = "audience_focused_prompt" -> "audience_focused",
                 prompt |-> lib.result,
                 product_name |-> args.product_name,
                 target_audience |-> args.target_audience,
                 tone |-> args.tone]}
          ELSE {})
    \cup (IF lib.fn = "get_all_prompts"
          THEN {[via |-> "get_all_prompts",
                 style |-> st,
                 prompt |-> lib.result[st],
                 product_name |-> args.product_name,
                 target_audience |-> args.target_audience,
                 tone |-> args.tone] : st \in DOMAIN lib.result}
          ELSE {})
    \cup (IF style # ""
          THEN {[via |-> "interactive_mode",
                 style |-> StyleOf(style),
                 prompt |-> prompt,
                 product_name |-> product_name,
                 target_audience |-> target_audience,
                 tone |-> IF entered_tone = <<>> THEN Omitted ELSE PyStr(entered_tone)]}
          ELSE {})
    \cup (IF InDemo
          THEN {[via |-> "demonstrate_prompt_usage",
                 style |-> DemoStyles[i],
                 prompt |-> calls[i].prompt,
                 product_name |-> DemoProduct,
                 target_audience |-> DemoAudience,
                 tone |-> PyStr(IF i = 2 THEN DemoCreativeTone ELSE DemoTone)] :
                    i \in 1..Len(calls)}
          ELSE {})

SloganMarkers == {"Slogan 1:", "Slogan 2:", "Slogan 3:"}

ClosingMarker(st) ==
    CASE st = "professional" -> "Brief Explanation:"
      [] st = "creative" -> "Creative Rationale:"
      [] st = "audience_focused" -> "Audience Insight:"

Markers(st) == SloganMarkers \cup {ClosingMarker(st)}

StyleDefaultTone(st) ==
    CASE st = "professional" -> <<"professional">>
      [] st = "creative" -> <<"bold">>
      [] st = "audience_focused" -> <<"friendly">>

MaintainSuffix(st) ==
    CASE st = "professional" -> " tone throughout"
      [] st = "creative" -> " and confident voice"
      [] st = "audience_focused" -> " and approachable tone"

\* the values a request supplied
Supplied(x) ==
    {x.product_name, x.target_audience}
        \cup (IF x.tone = Omitted THEN {} ELSE {x.tone.s})

\* t stands where the template interpolates the tone
ToneIs(x, t) ==
    /\ Contains(<<"\nDesired Tone: ">> \o t \o <<"\n\n">>, x.prompt)
    /\ Contains(<<"Maintain a ">> \o t \o <<MaintainSuffix(x.style)>>, x.prompt)

-----------------------------------------------------------------------------
(* Completion client *)

\* C1: whenever a configuration value is absent or empty, every generate_slogan
\* call returns a string that begins with "ERROR" and has touched the network
\* not at all: no client was constructed and no request was sent.
C1_MissingConfigIsReportedOffline ==
    ~Configured =>
        \A c \in GenerateCalls :
            /\ ~c.ret.raised
            /\ c.ret.value.type = "str"
            /\ StartsWith(<<"ERROR">>, c.ret.value.s)
            /\ c.ret.io = <<>>

\* a call made with only the API key empty, the other three values set
C1_Witness ==
    /\ environ["AZURE_OPENAI_KEY"] = PyStr(<<>>)
    /\ \A k \in ConfigKeys \ {"AZURE_OPENAI_KEY"} : truthy(environ[k])
    /\ Len(calls) = 1
    /\ calls[1].ret.value = PyStr(ConfigError)

\* C2: no generate_slogan call lets an exception through, and every result is
\* a string.
C2_NothingEscapesAndResultIsStr ==
    \A c \in GenerateCalls : ~c.ret.raised /\ c.ret.value.type = "str"

\* C3: with complete configuration, a create() that raises with message m makes
\* generate_slogan return "Error generating slogan: " followed by m; nothing is
\* raised to the caller and the request was sent once.
C3_SendFaultBecomesSentinel ==
    \A c \in GenerateCalls :
        \A i \in Events(c.ret, "create raised") :
            LET m == c.ret.io[i].e IN
            /\ Configured
            /\ ~c.ret.raised
            /\ c.ret.value = PyStr(<<"Error generating slogan: ">> \o m)
            /\ Contains(m, c.ret.value.s)
            /\ Cardinality(Events(c.ret, "create")) = 1
            /\ Cardinality(Events(c.ret, "create raised")) = 1

C3_Witness ==
    \E c \in GenerateCalls :
        /\ Events(c.ret, "create raised") # {}
        /\ c.ret.value = PyStr(<<"Error generating slogan: ", "ERROR", " 401 Unauthorized">>)

\* C4: with complete configuration, a response with at least one choice makes
\* generate_slogan return the content of the first choice as it is, and the
\* request sent holds the system message and then the prompt as user message.
C4_FirstChoiceVerbatim ==
    \A c \in GenerateCalls :
        \A i \in Events(c.ret, "response") :
            c.ret.io[i].choices # <<>> =>
                /\ Configured
                /\ ~c.ret.raised
                /\ c.ret.value = c.ret.io[i].choices[1]
                /\ \A j \in Events(c.ret, "create") :
                      c.ret.io[j].request.messages =
                          <<[role |-> "system", content |-> SystemMessage],
                            [role |-> "user", content |-> c.prompt]>>
                /\ Cardinality(Events(c.ret, "create")) = 1

\* a content with surrounding whitespace came back untouched, out of two choices
C4_Witness ==
    /\ \E c \in GenerateCalls :
          /\ Events(c.ret, "response") # {}
          /\ c.ret.value.type = "str"
          /\ c.ret.value.s # <<>>
          /\ Head(c.ret.value.s) = " "
    /\ \E c \in GenerateCalls : c.ret.value = PyStr(<<"first">>)

-----------------------------------------------------------------------------
(* Template renderer *)

\* C5 as claimed: every rendered prompt holds each of "Slogan 1:", "Slogan 2:",
\* "Slogan 3:" and its style's closing marker exactly once, whatever the values.
C5_ExactlyOneOfEachMarker ==
    \A x \in Rendered : \A m \in Markers(x.style) : Count(m, x.prompt) = 1

\* C5 as amended: every rendered prompt holds each of its markers at least
\* once, and exactly once when no supplied value holds that marker.
C5_OneMarkerUnlessSupplied ==
    \A x \in Rendered :
        \A m \in Markers(x.style) :
            /\ Count(m, x.prompt) >= 1
            /\ (\A v \in Supplied(x) : Count(m, v) = 0) => Count(m, x.prompt) = 1

\* a prompt rendered from marker-free values, one of them only whitespace
C5_Witness ==
    \E x \in Rendered :
        /\ x.via = "renderer"
        /\ x.style = "audience_focused"
        /\ x.target_audience = <<" ">>
        /\ \A m \in Markers(x.style) :
              (\A v \in Supplied(x) : Count(m, v) = 0) /\ Count(m, x.prompt) = 1

\* C6: in every rendered prompt the product name follows "Product: ", the
\* audience follows "Target Audience: " and a supplied tone follows
\* "Desired Tone: " and stands in the "Maintain a ..." line, each as given.
C6_ValuesVerbatim ==
    \A x \in Rendered :
        /\ Contains(<<"Product: ">> \o x.product_name
                        \o <<"\nTarget Audience: ">> \o x.target_audience
                        \o <<"\nDesired Tone: ">>,
                    x.prompt)
        /\ x.tone # Omitted => ToneIs(x, x.tone.s)

\* a renderer called with a whitespace-only product, an empty audience and an
\* empty tone
C6_Witness ==
    \E x \in Rendered :
        /\ x.via = "renderer"
        /\ x.style = "audience_focused"
        /\ x.product_name = <<" ">>
        /\ x.target_audience = <<>>
        /\ x.tone = PyStr(<<>>)

\* C7 as claimed: wherever a prompt is rendered for a request without a tone,
\* the tone in the prompt is the default of the selected style.
C7_StyleDefaultOnEveryPath ==
    \A x \in Rendered : x.tone = Omitted => ToneIs(x, StyleDefaultTone(x.style))

\* C7 as amended: a renderer called without a tone uses its style's default;
\* get_all_prompts without a tone and interactive_mode with an empty tone use
\* "professional" for whichever style.
C7_DefaultTonePerPath ==
    \A x \in Rendered :
        x.tone = Omitted =>
            ToneIs(x, IF x.via = "renderer" THEN StyleDefaultTone(x.style)
                                            ELSE <<"professional">>)

\* interactive mode rendered the creative style after an empty tone was typed
C7_Witness ==
    \E x \in Rendered :
        /\ x.via = "interactive_mode"
        /\ x.style = "creative"
        /\ x.tone = Omitted
        /\ Len(calls) = 1

IsRenderer(fn) ==
    fn \in {"professional_slogan_prompt", "creative_slogan_prompt",
            "audience_focused_prompt"}

StyleOfRenderer(fn) ==
    CASE fn = "professional_slogan_prompt" -> "professional"
      [] fn = "creative_slogan_prompt" -> "creative"
      [] fn = "audience_focused_prompt" -> "audience_focused"

-----------------------------------------------------------------------------
(* Console program *)

\* C9: main_menu ends only on an input that is "3" once stripped; after a demo
\* or an interactive run the menu is shown again; any other input makes no
\* generate_slogan call and asks again.
C9_MenuEndsOnlyOnThree ==
    /\ pc \in {"exited", "crashed"} => menu_choice = <<"3">>
    /\ (RunOver /\ menu_choice \in {<<"1">>, <<"2">>}) => pc = "main_menu"
    /\ (nInputs > 0 /\ menu_choice \notin {<<"1">>, <<"2">>, <<"3">>}) =>
          pc = "main_menu" /\ calls = <<>>

\* C10: a finished interactive run made exactly one generate_slogan call, with
\* the prompt of the style chosen (professional for any choice other than 2
\* and 3); a finished demo run made exactly three, for the professional, the
\* creative and the audience-focused prompt in this order.
C10_CallsPerRun ==
    RunOver =>
        /\ InInteractive =>
              /\ Len(calls) = 1
              /\ calls[1].prompt =
                    CASE choice = <<"2">> ->
                            creative_template(product_name, target_audience, tone)
                      [] choice = <<"3">> ->
                            audience_focused_template(product_name, target_audience, tone)
                      [] OTHER ->
                            professional_template(product_name, target_audience, tone)
        /\ InDemo =>
              /\ Len(calls) = 3
              /\ calls[1].prompt = professional_template(DemoProduct, DemoAudience, DemoTone)
              /\ calls[2].prompt = creative_template(DemoProduct, DemoAudience, DemoCreativeTone)
              /\ calls[3].prompt = audience_focused_template(DemoProduct, DemoAudience, DemoTone)

=============================================================================
